---- MODULE Spec2Model ----
(***************************************************************************)
(* Model of the Unmanic plugin notify_radarr (src/plugin.py).              *)
(*                                                                         *)
(* Strings are sequences of one-character strings, so that the textual     *)
(* operations of the code (str.replace, str.startswith, str.lower,         *)
(* os.path.normpath, ...) are computed character by character.             *)
(***************************************************************************)
EXTENDS Integers, Sequences, FiniteSets, TLC

(***************************************************************************)
(* Python values                                                           *)
(***************************************************************************)

\* Python's None, for a value that is a string when present.  It is a
\* one-element sequence whose element is not a single character, so it is
\* different from every string.
None == <<"None">>

\* Python truthiness of an optional string: None and '' are falsy.
Falsy(s) == s = None \/ s = <<>>

\* str.startswith
startswith(s, p) == Len(p) <= Len(s) /\ SubSeq(s, 1, Len(p)) = p

\* str.endswith
endswith(s, p) == Len(p) <= Len(s) /\ SubSeq(s, Len(s) - Len(p) + 1, Len(s)) = p

\* str.replace(old, new): left to right, non-overlapping occurrences.
RECURSIVE replace(_, _, _)
replace(s, old, new) ==
    IF Len(s) < Len(old) THEN s
    ELSE IF startswith(s, old)
         THEN new \o replace(SubSeq(s, Len(old) + 1, Len(s)), old, new)
         ELSE <<Head(s)>> \o replace(Tail(s), old, new)

UpperChars == <<"A","B","C","D","E","F","G","H","I","J","K","L","M",
                "N","O","P","Q","R","S","T","U","V","W","X","Y","Z">>
LowerChars == <<"a","b","c","d","e","f","g","h","i","j","k","l","m",
                "n","o","p","q","r","s","t","u","v","w","x","y","z">>

LowerChar(c) ==
    IF \E i \in 1..26 : UpperChars[i] = c
    THEN LowerChars[CHOOSE i \in 1..26 : UpperChars[i] = c]
    ELSE c

\* str.lower
lower(s) == [i \in 1..Len(s) |-> LowerChar(s[i])]

\* str.strip (whitespace is the space character here)
RECURSIVE lstrip(_)
lstrip(s) == IF s # <<>> /\ Head(s) = " " THEN lstrip(Tail(s)) ELSE s

RECURSIVE rstrip(_, _)
rstrip(s, c) ==
    IF s # <<>> /\ s[Len(s)] = c THEN rstrip(SubSeq(s, 1, Len(s) - 1), c) ELSE s

strip(s) == rstrip(lstrip(s), " ")

\* str.split(sep) for a one-character separator: the list of the pieces,
\* empty pieces included.
RECURSIVE split(_, _)
split(s, sep) ==
    IF \A i \in 1..Len(s) : s[i] # sep THEN <<s>>
    ELSE LET k == CHOOSE i \in 1..Len(s) :
                      s[i] = sep /\ \A j \in 1..(i - 1) : s[j] # sep
         IN  <<SubSeq(s, 1, k - 1)>> \o split(SubSeq(s, k + 1, Len(s)), sep)

\* sep.join(list)
RECURSIVE joinstr(_, _)
joinstr(parts, sep) ==
    IF parts = <<>> THEN <<>>
    ELSE IF Len(parts) = 1 THEN parts[1]
    ELSE parts[1] \o <<sep>> \o joinstr(Tail(parts), sep)

(***************************************************************************)
(* os.path (posixpath)                                                     *)
(***************************************************************************)

\* The loop of posixpath.normpath over the components of the path.
RECURSIVE normcomps(_, _, _)
normcomps(comps, acc, initial_slashes) ==
    IF comps = <<>> THEN acc
    ELSE LET comp == Head(comps)
             rest == Tail(comps)
         IN  IF comp = <<>> \/ comp = <<".">>
             THEN normcomps(rest, acc, initial_slashes)
             ELSE IF comp # <<".", ".">>
                     \/ (initial_slashes = 0 /\ acc = <<>>)
                     \/ (acc # <<>> /\ acc[Len(acc)] = <<".", ".">>)
                  THEN normcomps(rest, Append(acc, comp), initial_slashes)
                  ELSE IF acc # <<>>
                       THEN normcomps(rest, SubSeq(acc, 1, Len(acc) - 1), initial_slashes)
                       ELSE normcomps(rest, acc, initial_slashes)

\* os.path.normpath
normpath(path) ==
    IF path = <<>> THEN <<".">>
    ELSE LET initial_slashes ==
                 IF ~startswith(path, <<"/">>) THEN 0
                 ELSE IF startswith(path, <<"/", "/">>) /\ ~startswith(path, <<"/", "/", "/">>)
                      THEN 2 ELSE 1
             comps == normcomps(split(path, "/"), <<>>, initial_slashes)
             body == joinstr(comps, "/")
             res == [i \in 1..initial_slashes |-> "/"] \o body
         IN  IF res = <<>> THEN <<".">> ELSE res

\* Index after the last "/" of p (p.rfind('/') + 1).
rfind1(p) ==
    IF \A i \in 1..Len(p) : p[i] # "/" THEN 0
    ELSE CHOOSE i \in 1..Len(p) : p[i] = "/" /\ \A j \in (i + 1)..Len(p) : p[j] # "/"

\* os.path.dirname
dirname(p) ==
    LET head == SubSeq(p, 1, rfind1(p))
    IN  IF head # <<>> /\ \E i \in 1..Len(head) : head[i] # "/"
        THEN rstrip(head, "/") ELSE head

\* os.path.join(a, b)
path_join(a, b) ==
    IF startswith(b, <<"/">>) THEN b
    ELSE IF a = <<>> \/ endswith(a, <<"/">>) THEN a \o b
    ELSE a \o <<"/">> \o b

\* The non-empty components of a path.
nonempty(comps) == SelectSeq(comps, LAMBDA c : c # <<>>)

\* Length of the common prefix of two component lists.
RECURSIVE commonlen(_, _)
commonlen(a, b) ==
    IF a = <<>> \/ b = <<>> \/ Head(a) # Head(b) THEN 0
    ELSE 1 + commonlen(Tail(a), Tail(b))

\* os.path.relpath(path, start), for absolute path and start (abspath is
\* normpath then).
relpath(path, start) ==
    LET start_list == nonempty(split(normpath(start), "/"))
        path_list == nonempty(split(normpath(path), "/"))
        i == commonlen(start_list, path_list)
        rel_list == [k \in 1..(Len(start_list) - i) |-> <<".", ".">>]
                        \o SubSeq(path_list, i + 1, Len(path_list))
    IN  IF rel_list = <<>> THEN <<".">> ELSE joinstr(rel_list, "/")

(***************************************************************************)
(* simple_eval: the rule language                                          *)
(*                                                                         *)
(* A query is a string.  The queries of the model are comparisons          *)
(* "operand op operand" (op is == or in, an operand is a name or a quoted  *)
(* literal) connected by the keywords and/or, the tokens separated by one  *)
(* space.  Everything else is a syntax error.  The result of an evaluation *)
(* is "true", "false" or "error" (simple_eval raised).                     *)
(***************************************************************************)

\* Values of the names: a string, None, or a list of strings.
StrVal(s) == IF s = None THEN [t |-> "none"] ELSE [t |-> "str", v |-> s]
ListVal(l) == [t |-> "list", v |-> l]
ErrVal == [t |-> "error"]

kw_and == <<"a", "n", "d">>
kw_or == <<"o", "r">>
kw_in == <<"i", "n">>
kw_eq == <<"=", "=">>

IsLiteral(tok) ==
    /\ Len(tok) >= 2
    /\ tok[1] = "'"
    /\ tok[Len(tok)] = "'"
    /\ \A i \in 2..(Len(tok) - 1) : tok[i] # "'"

Letters == {"_"} \cup {UpperChars[i] : i \in 1..26} \cup {LowerChars[i] : i \in 1..26}
IsLetter(c) == c \in Letters

IsName(tok) ==
    /\ tok # <<>>
    /\ \A i \in 1..Len(tok) : IsLetter(tok[i])
    /\ tok \notin {kw_and, kw_or, kw_in}

IsOperand(tok) == IsLiteral(tok) \/ IsName(tok)

\* The expression parses: comparisons at tokens 4k+1..4k+3, a keyword at 4k+4.
ValidSyntax(toks) ==
    /\ Len(toks) % 4 = 3
    /\ \A i \in 1..Len(toks) :
          CASE i % 4 = 1 -> IsOperand(toks[i])
            [] i % 4 = 2 -> toks[i] \in {kw_eq, kw_in}
            [] i % 4 = 3 -> IsOperand(toks[i])
            [] OTHER     -> toks[i] \in {kw_and, kw_or}

\* Value of an operand; a name that is not defined raises.
EvalOperand(tok, names) ==
    IF IsLiteral(tok) THEN [t |-> "str", v |-> SubSeq(tok, 2, Len(tok) - 1)]
    ELSE IF tok \in DOMAIN names THEN names[tok]
    ELSE ErrVal

IsSubstring(a, b) == \E i \in 1..(Len(b) - Len(a) + 1) : SubSeq(b, i, i + Len(a) - 1) = a

BoolStr(b) == IF b THEN "true" ELSE "false"

\* One comparison.
EvalCompare(l, op, r) ==
    IF l.t = "error" \/ r.t = "error" THEN "error"
    ELSE IF op = kw_eq
         THEN BoolStr(l.t = r.t /\ (l.t = "none" \/ l.v = r.v))
         ELSE \* in
              CASE r.t = "list" -> BoolStr(l.t = "str" /\ \E i \in 1..Len(r.v) : r.v[i] = l.v)
                [] r.t = "str"  -> IF l.t = "str" THEN BoolStr(IsSubstring(l.v, r.v)) ELSE "error"
                [] OTHER        -> "error"

\* The k-th comparison (k from 0) of a valid token list.
CompareAt(toks, k, names) ==
    EvalCompare(EvalOperand(toks[4 * k + 1], names), toks[4 * k + 2],
                EvalOperand(toks[4 * k + 3], names))

NumCompares(toks) == (Len(toks) + 1) \div 4

\* Last comparison of the "and" group that starts at comparison k.
RECURSIVE GroupEnd(_, _)
GroupEnd(toks, k) ==
    IF k = NumCompares(toks) - 1 \/ toks[4 * k + 4] # kw_and THEN k
    ELSE GroupEnd(toks, k + 1)

\* "and" binds tighter than "or"; both short-circuit, so that an operand that
\* is not reached is not evaluated.
RECURSIVE EvalAnd(_, _, _)
EvalAnd(toks, k, names) ==
    LET v == CompareAt(toks, k, names)
    IN  IF v # "true" \/ k = GroupEnd(toks, k) THEN v
        ELSE EvalAnd(toks, k + 1, names)

RECURSIVE EvalOr(_, _, _)
EvalOr(toks, k, names) ==
    LET v == EvalAnd(toks, k, names)
        e == GroupEnd(toks, k)
    IN  IF v # "false" \/ e = NumCompares(toks) - 1 THEN v
        ELSE EvalOr(toks, e + 1, names)

\* simple_eval(expr, names=names)
simple_eval(expr, names) ==
    LET toks == split(expr, " ")
    IN  IF ~ValidSyntax(toks) THEN "error" ELSE EvalOr(toks, 0, names)

\* safe_query = query.replace('AND', 'and').replace('OR', 'or')
safe_query(query) ==
    replace(replace(query, <<"A", "N", "D">>, kw_and), <<"O", "R">>, kw_or)

\* match = simple_eval(safe_query, names=flat_data)
EvalRule(query, names) == simple_eval(safe_query(query), names)

(***************************************************************************)
(* Settings and the inputs of the model                                    *)
(***************************************************************************)

\* Settings.__init__ populates rule slots 1..10.
NumSlots == 10

\* The keys in the order of their names as strings: 1, 10, 2, ..., 9.
RuleKeys_Lexicographic == <<1, 10>> \o [i \in 1..(NumSlots - 2) |-> i + 1]

\* Order of the rule_query_<i> keys in the settings dict: the insertion order
\* of Settings.__init__, which "for key in configured" follows.
RuleKeys == [i \in 1..NumSlots |-> i]

\* Names of flat_data that the queries of the model use.
k_quality_profile == <<"q", "u", "a", "l", "i", "t", "y", "_", "p", "r", "o", "f", "i", "l", "e">>
k_tags == <<"t", "a", "g", "s">>
k_root_path == <<"r", "o", "o", "t", "_", "p", "a", "t", "h">>
k_path == <<"p", "a", "t", "h">>
k_relative_path == <<"r", "e", "l", "a", "t", "i", "v", "e", "_", "p", "a", "t", "h">>
k_event_type == <<"e", "v", "e", "n", "t", "_", "t", "y", "p", "e">>

s_Download == <<"D", "o", "w", "n", "l", "o", "a", "d">>
s_test == <<"t", "e", "s", "t">>

\* Rule queries of the model.
q_empty == <<>>
\* quality_profile == 'HD'
q_hd == <<"q", "u", "a", "l", "i", "t", "y", "_", "p", "r", "o", "f", "i", "l", "e", " ", "=", "=", " ", "'", "H", "D", "'">>
\* '4k' in tags
q_4k == <<"'", "4", "k", "'", " ", "i", "n", " ", "t", "a", "g", "s">>
\* a reference to a name that flat_data does not define
q_undefined == <<"r", "e", "s", "o", "l", "u", "t", "i", "o", "n", " ", "=", "=", " ", "'", "H", "D", "'">>

\* Defaults of a slot (Settings.__init__).
DefaultSlot == [rule_query |-> q_empty, library_id |-> <<>>,
                trigger_test_path |-> TRUE, create_task |-> FALSE]

\* Non-default slot configurations of the model.
SlotConfigs ==
    { [rule_query |-> q_hd, library_id |-> <<"1">>, trigger_test_path |-> TRUE, create_task |-> TRUE],
      [rule_query |-> q_4k, library_id |-> <<"1">>, trigger_test_path |-> TRUE, create_task |-> FALSE],
      [rule_query |-> q_hd, library_id |-> <<"2">>, trigger_test_path |-> FALSE, create_task |-> TRUE],
      [rule_query |-> q_hd, library_id |-> <<>>, trigger_test_path |-> TRUE, create_task |-> TRUE],
      [rule_query |-> q_empty, library_id |-> <<"1">>, trigger_test_path |-> TRUE, create_task |-> TRUE],
      [rule_query |-> q_hd, library_id |-> <<"3">>, trigger_test_path |-> TRUE, create_task |-> TRUE],
      [rule_query |-> q_undefined, library_id |-> <<"1">>, trigger_test_path |-> TRUE, create_task |-> TRUE] }

\* Slots that the model configures; the other slots keep their defaults.
SlotPool == {2, 10}

RuleSettings ==
    { [n \in 1..NumSlots |-> IF n \in SlotPool THEN c[n] ELSE DefaultSlot] :
        c \in [SlotPool -> SlotConfigs \cup {DefaultSlot}] }

\* Library.get_all_libraries(): id -> path
p_lib1 == <<"/", "l">>
p_lib2 == <<"/", "k">>
LibraryCatalog == (1 :> p_lib1) @@ (2 :> p_lib2)

\* Paths of the webhook payloads.
p_root == <<"/", "m", "/", "F">>
p_inside == <<"/", "m", "/", "F", "/", "x">>
p_sibling == <<"/", "m", "/", "F", "2", "/", "x">>
p_traversal == <<"/", "m", "/", "F", "/", ".", ".", "/", "G", "/", "x">>
p_rel == <<"x">>

\* File entries of the payloads: 'path' and 'relativePath'.
FileEntries ==
    { [path |-> p_inside, relativePath |-> p_rel],
      [path |-> p_sibling, relativePath |-> None],
      [path |-> p_traversal, relativePath |-> None] }

\* A file entry without 'path'.
RelativeEntry == [path |-> None, relativePath |-> p_rel]

\* At most this many file entries in movieFiles.
MaxFiles == 2

FileLists == UNION { [1..n -> FileEntries] : n \in 0..MaxFiles }

\* payload['eventType']; None stands for a missing or non-string value.
EventTypes == { <<"T", "e", "s", "t">>, s_test, <<"T", "E", "S", "T">>, <<" ", "t", "E", "s", "T", " ">>, s_Download, <<"d", "o", "w", "n", "l", "o", "a", "d">>, <<"G", "r", "a", "b">>, None }

\* Requests: the fields of data and of the JSON payload that the handler reads.
\* movieFile is <<entry>> or <<>> (absent); movieFiles is the list, <<>> when
\* it is absent or not a list; movie_id 0 is a missing id.
Request(method, body_ok, eventType, root, movie_id, movieFile, movieFiles) ==
    [method |-> method, body_ok |-> body_ok, eventType |-> eventType,
     movie_path |-> root, movie_id |-> movie_id,
     movieFile |-> movieFile, movieFiles |-> movieFiles]

\* An absent movieFile; a present one is the one-element list of the entry.
NoFile == <<>>

Requests ==
    { Request("GET", TRUE, s_Download, p_root, 7, NoFile, <<>>),
      Request("POST", FALSE, None, None, 0, NoFile, <<>>) }
    \cup { Request("POST", TRUE, e, p_root, 7, NoFile, << CHOOSE f \in FileEntries : f.path = p_inside >>) :
             e \in EventTypes }
    \cup { Request("POST", TRUE, s_Download, p_root, 7, NoFile, fl) : fl \in FileLists }
    \cup { Request("POST", TRUE, s_Download, None, 7, <<f>>, <<>>) :
             f \in FileEntries \cup {RelativeEntry} }
    \cup { Request("POST", TRUE, s_Download, p_root, m, <<f>>, <<>>) :
             m \in {0, 7}, f \in FileEntries \cup {RelativeEntry} }


\* The payload's movie.tags holds tag ids, not labels: an id is a list item
\* that is equal to no label.
TagId1 == <<"id:1">>
PayloadTags == <<TagId1>>

\* What the Radarr API holds for the movie: its tag labels and the name of
\* its quality profile.
s_HD == <<"H", "D">>
s_SD == <<"S", "D">>
ServiceTagLabels == << <<"4", "k">> >>
ProfileNames == {s_HD, s_SD}

\* Outcome of the API calls of one request: which call raises, if any.
ApiFailures == {"none", "get_movie", "get_tag", "get_quality_profile"}

\* Results of pending_tasks.test_path_for_pending_task: the call raises,
\* returns None, or returns a dict with add_file_to_pending_tasks.
TestResults ==
    { [raised |-> TRUE, none |-> FALSE, add_file_to_pending_tasks |-> FALSE, priority_score |-> 0],
      [raised |-> FALSE, none |-> TRUE, add_file_to_pending_tasks |-> FALSE, priority_score |-> 0],
      [raised |-> FALSE, none |-> FALSE, add_file_to_pending_tasks |-> FALSE, priority_score |-> 0],
      [raised |-> FALSE, none |-> FALSE, add_file_to_pending_tasks |-> TRUE, priority_score |-> 5] }

(***************************************************************************)
(* render_plugin_api: routing                                              *)
(***************************************************************************)

Digits == <<"0", "1", "2", "3", "4", "5", "6", "7", "8", "9">>
IsInt(s) == s # <<>> /\ \A i \in 1..Len(s) : \E d \in 1..10 : Digits[d] = s[i]
DigitVal(c) == (CHOOSE d \in 1..10 : Digits[d] = c) - 1

\* int(library_id)
RECURSIVE int(_)
int(s) == IF s = <<>> THEN 0 ELSE 10 * int(SubSeq(s, 1, Len(s) - 1)) + DigitVal(s[Len(s)])

\* movie_files: the single movieFile, else the movieFiles list, else empty.
MovieFiles(req) == IF req.movieFile # <<>> THEN req.movieFile ELSE req.movieFiles

\* file_path of a file entry: its path, else root_path joined with its
\* relative path.
FilePath(root_path, movie_file) ==
    IF Falsy(movie_file.path) /\ ~Falsy(root_path) /\ ~Falsy(movie_file.relativePath)
    THEN path_join(root_path, movie_file.relativePath)
    ELSE movie_file.path

\* The record is skipped before the rules: no path, or a path that does not
\* start with the movie's root.
Dropped(root_path, file_path) ==
    \/ Falsy(file_path)
    \/ ~Falsy(root_path) /\ ~startswith(normpath(file_path), normpath(root_path))

\* flat_data of one file entry.
FlatData(base, root_path, movie_file) ==
    (k_event_type :> StrVal(s_Download))
    @@ (k_root_path :> StrVal(root_path))
    @@ (k_tags :> ListVal(base.tags))
    @@ (k_quality_profile :> StrVal(base.quality_profile))
    @@ (k_relative_path :> StrVal(movie_file.relativePath))
    @@ (k_path :> StrVal(FilePath(root_path, movie_file)))

\* radarr_root_dir: the parent of the movie's root.
RadarrRootDir(root_path) == IF Falsy(root_path) THEN None ELSE dirname(normpath(root_path))

\* The relative path taken by cutting the length of radarr_root_dir off the
\* file's path.
UnmanicPath_BySlicing(file_path, radarr_root_dir, library_path) ==
    normpath(path_join(library_path,
                       SubSeq(file_path, Len(radarr_root_dir) + 1, Len(file_path))))

\* unmanic_path: the file's path relative to radarr_root_dir, under the
\* library's path.
UnmanicPath(file_path, radarr_root_dir, library_path) ==
    normpath(path_join(library_path, relpath(file_path, radarr_root_dir)))

\* Path translation of a match: fails without a root directory or for a file
\* outside it.
Translate(file_path, root_path, library_path) ==
    LET radarr_root_dir == RadarrRootDir(root_path)
    IN  IF Falsy(radarr_root_dir) THEN [ok |-> FALSE, path |-> None]
        ELSE IF ~startswith(normpath(file_path), radarr_root_dir) THEN [ok |-> FALSE, path |-> None]
        ELSE [ok |-> TRUE, path |-> UnmanicPath(file_path, radarr_root_dir, library_path)]

\* A slot taking part in the routing as soon as it has a query.
SlotActive_IgnoringLibrary(slot) == ~Falsy(slot.rule_query)

\* A slot takes part in the routing: it has a query and a library id.
SlotActive(slot) == ~Falsy(slot.rule_query) /\ ~Falsy(slot.library_id)

\* The match of one slot for one record: the list of zero or one entries of
\* matched_rules.  rec (the position of the file entry) is not in the code's
\* entry; it records which record the match comes from.
SlotMatch(slot, index, rec, flat_data, file_path, root_path) ==
    IF EvalRule(slot.rule_query, flat_data) # "true" THEN <<>>
    ELSE IF ~IsInt(slot.library_id) THEN <<>>
    ELSE LET library_id == int(slot.library_id)
         IN  IF library_id \notin DOMAIN LibraryCatalog \/ Falsy(LibraryCatalog[library_id]) THEN <<>>
             ELSE LET t == Translate(file_path, root_path, LibraryCatalog[library_id])
                  IN  IF ~t.ok THEN <<>>
                      ELSE << [library_id |-> library_id, index |-> index,
                               path |-> t.path, rec |-> rec] >>

\* The loop over the rule_query_<i> keys for one record, from position k of
\* the key order.  Gives, in order, an entry for every evaluation of a query
\* (match FALSE) followed by the entry of matched_rules if there is one
\* (match TRUE).
Evaluation(rec, index) == [match |-> FALSE, library_id |-> 0, index |-> index, path |-> None, rec |-> rec]
Matched(entry) == [match |-> TRUE] @@ entry

RECURSIVE RouteSlots(_, _, _, _, _, _)
RouteSlots(configured, k, rec, flat_data, file_path, root_path) ==
    IF k > Len(RuleKeys) THEN <<>>
    ELSE LET index == RuleKeys[k]
             slot == configured[index]
         IN  (IF ~SlotActive(slot) THEN <<>>
              ELSE LET found == SlotMatch(slot, index, rec, flat_data, file_path, root_path)
                   IN  <<Evaluation(rec, index)>> \o [n \in 1..Len(found) |-> Matched(found[n])])
             \o RouteSlots(configured, k + 1, rec, flat_data, file_path, root_path)

\* The loop over movie_files, from file entry rec.
RECURSIVE RouteFiles(_, _, _, _, _)
RouteFiles(configured, base, root_path, movie_files, rec) ==
    IF rec > Len(movie_files) THEN <<>>
    ELSE LET movie_file == movie_files[rec]
             file_path == FilePath(root_path, movie_file)
         IN  (IF Dropped(root_path, file_path) THEN <<>>
              ELSE RouteSlots(configured, 1, rec, FlatData(base, root_path, movie_file),
                              file_path, root_path))
             \o RouteFiles(configured, base, root_path, movie_files, rec + 1)

\* matched_rules: the matches of a routing.
MatchesOf(routing) ==
    LET found == SelectSeq(routing, LAMBDA e : e.match)
    IN  [n \in 1..Len(found) |->
            [library_id |-> found[n].library_id, index |-> found[n].index,
             path |-> found[n].path, rec |-> found[n].rec]]

\* The (record, slot) pairs whose query was evaluated in a routing.
EvaluationsOf(routing) ==
    LET done == SelectSeq(routing, LAMBDA e : ~e.match)
    IN  [n \in 1..Len(done) |-> <<done[n].rec, done[n].index>>]

(***************************************************************************)
(* State                                                                   *)
(***************************************************************************)

VARIABLES
    settings,           \* enable_webhook, api_key (set or not) and the rule slots
    request,            \* the request being handled
    pc,                 \* position of render_plugin_api
    data,               \* data['status'] and data['content']
    flat_data_base,     \* tags and quality_profile of flat_data_base
    matched_rules,      \* matched_rules
    evaluated,          \* (record, slot) pairs given to simple_eval, in order
    i,                  \* position of the "Trigger Actions" loop in matched_rules
    result,             \* result of the necessity test while its task is created
    triggered_actions,  \* triggered_actions
    calls,              \* calls of the external collaborators, in order
    tr,                 \* one application of the path translation
    ev,                 \* one evaluation of a rule query
    fsettings,          \* settings read by on_postprocessor_task_results
    task,               \* the data of the completed task
    fpc,                \* position of on_postprocessor_task_results
    j,                  \* position of process_files in destination_files
    movie_id,           \* movie_id of update_mode
    download_id,        \* download_id of import_mode
    now,                \* seconds slept so far
    fcalls              \* calls of the Radarr API by process_files, in order

\* State of render_plugin_api.
wvars == <<settings, request, pc, data, flat_data_base, matched_rules, evaluated,
           i, result, triggered_actions, calls>>

\* State of on_postprocessor_task_results.
fvars == <<fsettings, task, fpc, j, movie_id, download_id, now, fcalls>>

vars == <<wvars, tr, ev, fvars>>

\* data['content'] is one of: not set, {"error": ...}, {"success", "message"},
\* {"success", "triggered_actions"}.
NoContent == [kind |-> "unset", success |-> FALSE, message |-> "", triggered_actions |-> <<>>]
ErrorContent(msg) == [kind |-> "error", success |-> FALSE, message |-> msg, triggered_actions |-> <<>>]
MessageContent(ok, msg) == [kind |-> "message", success |-> ok, message |-> msg, triggered_actions |-> <<>>]
ActionsContent(actions) == [kind |-> "actions", success |-> TRUE, message |-> "", triggered_actions |-> actions]

NoRequest == Request("", FALSE, None, None, 0, NoFile, <<>>)
NoResult == [raised |-> FALSE, none |-> TRUE, add_file_to_pending_tasks |-> FALSE, priority_score |-> 0]

\* The webhook can be disabled by either setting; the rule slots do not matter
\* then.
SettingsSet ==
    { [enable_webhook |-> TRUE, api_key |-> TRUE, configured |-> c] : c \in RuleSettings }
    \cup { [enable_webhook |-> e, api_key |-> k, configured |-> [n \in 1..NumSlots |-> DefaultSlot]] :
             e, k \in BOOLEAN }

WebhookInit ==
    /\ settings \in SettingsSet
    /\ request = NoRequest
    /\ pc = "start"
    /\ data = [status |-> 200, content |-> NoContent]
    /\ flat_data_base = [tags |-> <<>>, quality_profile |-> None]
    /\ matched_rules = <<>>
    /\ evaluated = <<>>
    /\ i = 1
    /\ result = NoResult
    /\ triggered_actions = <<>>
    /\ calls = <<>>

\* The parts of the state that a specification does not use stay idle.
TrIdle == tr = [file_path |-> None, root_path |-> None, library_path |-> None,
                done |-> FALSE, res |-> [ok |-> FALSE, path |-> None]]
EvIdle == ev = [query |-> <<>>, quality_profile |-> None, tags |-> <<>>, done |-> FALSE, res |-> ""]
FilesIdle ==
    /\ fsettings = [mode |-> "", rename_files |-> FALSE, limit_import_on_file_size |-> FALSE,
                    minimum_file_size |-> <<>>, api_key |-> FALSE]
    /\ task = [task_processing_success |-> FALSE, file_move_processes_success |-> FALSE,
               destination_files |-> <<>>]
    /\ fpc = "idle"
    /\ j = 1
    /\ movie_id = 0
    /\ download_id = 0
    /\ now = 0
    /\ fcalls = <<>>
WebhookIdle ==
    /\ settings = [enable_webhook |-> FALSE, api_key |-> FALSE,
                   configured |-> [n \in 1..NumSlots |-> DefaultSlot]]
    /\ request = NoRequest
    /\ pc = "idle"
    /\ data = [status |-> 200, content |-> NoContent]
    /\ flat_data_base = [tags |-> <<>>, quality_profile |-> None]
    /\ matched_rules = <<>>
    /\ evaluated = <<>>
    /\ i = 1
    /\ result = NoResult
    /\ triggered_actions = <<>>
    /\ calls = <<>>

Init == WebhookInit /\ TrIdle /\ EvIdle /\ FilesIdle

(***************************************************************************)
(* render_plugin_api                                                       *)
(***************************************************************************)

\* The handler returns with this status and content.
Return(status, content) ==
    /\ pc' = "done"
    /\ data' = [status |-> status, content |-> content]

\* The outer "except Exception": status 500, content left as it is.
Raise ==
    /\ pc' = "done"
    /\ data' = [data EXCEPT !.status = 500]

\* The comparison with 'test' without lower().
IsTestEvent_CaseSensitive(event_type) == event_type # None /\ strip(event_type) = s_test

IsTestEvent(event_type) == event_type # None /\ lower(strip(event_type)) = s_test

\* Entry of the handler up to the check of the file details.
Receive ==
    /\ pc = "start"
    /\ \E req \in Requests :
         /\ request' = req
         /\ IF ~settings.enable_webhook \/ ~settings.api_key
               THEN Return(404, ErrorContent("Webhook disabled"))
            ELSE IF req.method # "POST"
               THEN Return(405, ErrorContent("Method not allowed"))
            ELSE IF ~req.body_ok
               THEN Return(400, ErrorContent("Invalid JSON"))
            ELSE IF IsTestEvent(req.eventType)
               THEN Return(data.status, MessageContent(TRUE, "Test successful"))
            ELSE IF req.eventType # s_Download
               THEN Return(data.status, MessageContent(TRUE, "Ignored webhook event type"))
            ELSE IF MovieFiles(req) = <<>>
               THEN Return(data.status, MessageContent(TRUE, "Ignored webhook without movie file details"))
            ELSE pc' = "lookup" /\ data' = data
    /\ UNCHANGED <<settings, flat_data_base, matched_rules, evaluated, i, result,
                   triggered_actions, calls>>
    /\ UNCHANGED <<tr, ev, fvars>>

\* Entries of calls.  match is the position in matched_rules of the match the
\* call is made for (0 for the other calls), needed the necessity test's
\* add_file_to_pending_tasks.
ApiCall(fn, raised) ==
    [fn |-> fn, path |-> None, library_id |-> 0, priority_score |-> 0, raised |-> raised,
     match |-> 0, needed |-> FALSE]
TaskCall(fn, path, library_id, priority_score, raised, match, needed) ==
    [fn |-> fn, path |-> path, library_id |-> library_id, priority_score |-> priority_score,
     raised |-> raised, match |-> match, needed |-> needed]

\* "Fetch extra info from Radarr API": get_movie, then get_tag for the tag
\* labels, then get_quality_profile for the profile name.  A call that raises
\* ends the block and keeps what was set before it.
Lookup ==
    /\ pc = "lookup"
    /\ \E fail \in ApiFailures, name \in ProfileNames :
         IF request.movie_id = 0
         THEN /\ fail = "none" /\ name = s_HD
              /\ flat_data_base' = [tags |-> PayloadTags, quality_profile |-> None]
              /\ calls' = calls
         ELSE IF fail = "get_movie"
         THEN /\ name = s_HD
              /\ flat_data_base' = [tags |-> PayloadTags, quality_profile |-> None]
              /\ calls' = calls \o <<ApiCall("get_movie", TRUE)>>
         ELSE IF fail = "get_tag"
         THEN /\ name = s_HD
              /\ flat_data_base' = [tags |-> PayloadTags, quality_profile |-> None]
              /\ calls' = calls \o <<ApiCall("get_movie", FALSE), ApiCall("get_tag", TRUE)>>
         ELSE IF fail = "get_quality_profile"
         THEN /\ name = s_HD
              /\ flat_data_base' = [tags |-> ServiceTagLabels, quality_profile |-> None]
              /\ calls' = calls \o <<ApiCall("get_movie", FALSE), ApiCall("get_tag", FALSE),
                                     ApiCall("get_quality_profile", TRUE)>>
         ELSE /\ flat_data_base' = [tags |-> ServiceTagLabels, quality_profile |-> name]
              /\ calls' = calls \o <<ApiCall("get_movie", FALSE), ApiCall("get_tag", FALSE),
                                     ApiCall("get_quality_profile", FALSE)>>
    /\ pc' = "route"
    /\ UNCHANGED <<settings, request, data, matched_rules, evaluated, i, result, triggered_actions>>
    /\ UNCHANGED <<tr, ev, fvars>>

\* "Evaluate Rules per movie file": the catalog is fetched, then every file
\* entry is checked against every rule slot.
Route ==
    /\ pc = "route"
    /\ LET routing == RouteFiles(settings.configured, flat_data_base, request.movie_path,
                                 MovieFiles(request), 1)
       IN  /\ matched_rules' = MatchesOf(routing)
           /\ evaluated' = EvaluationsOf(routing)
    /\ calls' = Append(calls, ApiCall("get_all_libraries", FALSE))
    /\ i' = 1
    /\ pc' = "trigger"
    /\ UNCHANGED <<settings, request, data, flat_data_base, result, triggered_actions>>
    /\ UNCHANGED <<tr, ev, fvars>>

\* "if create_task and result and result.get('add_file_to_pending_tasks')",
\* with the test's result ignored
NeedsTask_IgnoringResult(slot, res) == slot.create_task

\* "if create_task and result and result.get('add_file_to_pending_tasks')"
NeedsTask(slot, res) == slot.create_task /\ ~res.none /\ res.add_file_to_pending_tasks

Action(rule, action) == [library_id |-> rule.library_id, action |-> action, rule_index |-> rule.index]

\* One pass of the "Trigger Actions" loop for a slot whose trigger_test_path is
\* off: nothing is called and nothing is recorded.
TriggerSkip ==
    /\ pc = "trigger"
    /\ i <= Len(matched_rules)
    /\ ~settings.configured[matched_rules[i].index].trigger_test_path
    /\ i' = i + 1
    /\ UNCHANGED <<settings, request, pc, data, flat_data_base, matched_rules, evaluated,
                   result, triggered_actions, calls>>
    /\ UNCHANGED <<tr, ev, fvars>>

\* One pass of the loop up to the decision about the task: the necessity test
\* is called.  If it raises, the exception reaches the outer handler.
TriggerTest ==
    /\ pc = "trigger"
    /\ i <= Len(matched_rules)
    /\ LET rule == matched_rules[i]
           slot == settings.configured[rule.index]
       IN  /\ slot.trigger_test_path
           /\ \E res \in TestResults :
                /\ calls' = Append(calls, TaskCall("test_path_for_pending_task", rule.path,
                                                   rule.library_id, 0, res.raised, i,
                                                   ~res.raised /\ ~res.none
                                                       /\ res.add_file_to_pending_tasks))
                /\ result' = IF ~res.raised /\ NeedsTask(slot, res) THEN res ELSE NoResult
                /\ IF res.raised
                   THEN Raise /\ UNCHANGED <<i, triggered_actions>>
                   ELSE IF NeedsTask(slot, res)
                   THEN pc' = "create" /\ UNCHANGED <<data, i, triggered_actions>>
                   ELSE /\ triggered_actions' = Append(triggered_actions, Action(rule, "test_only"))
                        /\ i' = i + 1
                        /\ UNCHANGED <<pc, data>>
    /\ UNCHANGED <<settings, request, flat_data_base, matched_rules, evaluated>>
    /\ UNCHANGED <<tr, ev, fvars>>

\* The rest of the pass: the pending task is created with the priority score
\* of the test.  If the call raises, the exception reaches the outer handler.
TriggerCreate ==
    /\ pc = "create"
    /\ LET rule == matched_rules[i]
       IN  \E raised \in BOOLEAN :
             /\ calls' = Append(calls, TaskCall("create_task", rule.path, rule.library_id,
                                                result.priority_score, raised, i, FALSE))
             /\ IF raised
                THEN Raise /\ UNCHANGED <<i, triggered_actions>>
                ELSE /\ triggered_actions' = Append(triggered_actions, Action(rule, "create_task"))
                     /\ i' = i + 1
                     /\ pc' = "trigger"
                     /\ data' = data
    /\ UNCHANGED <<settings, request, flat_data_base, matched_rules, evaluated, result>>
    /\ UNCHANGED <<tr, ev, fvars>>

\* After the loop: the response.
Respond ==
    /\ pc = "trigger"
    /\ i > Len(matched_rules)
    /\ IF matched_rules # <<>>
       THEN Return(data.status, ActionsContent(triggered_actions))
       ELSE Return(data.status, MessageContent(FALSE, "No rules matched for webhook payload"))
    /\ UNCHANGED <<settings, request, flat_data_base, matched_rules, evaluated, i, result,
                   triggered_actions, calls>>
    /\ UNCHANGED <<tr, ev, fvars>>

Next ==
    \/ Receive
    \/ Lookup
    \/ Route
    \/ TriggerSkip
    \/ TriggerTest
    \/ TriggerCreate
    \/ Respond

Spec == Init /\ [][Next]_vars

TypeOK ==
    /\ pc \in {"idle", "start", "lookup", "route", "trigger", "create", "done"}
    /\ data.status \in {200, 400, 404, 405, 500}
    /\ i \in 1..(Len(matched_rules) + 1)

(***************************************************************************)
(* The path translation on its own                                         *)
(***************************************************************************)

p_root_slash == <<"/", "m", "/", "F", "/">>
p_top == <<"/", "m">>
p_root_itself == <<"/", "m", "/", "F">>
p_unnormalized == <<"/", "m", "/", "/", "F", "/", ".", "/", "x">>
p_elsewhere == <<"/", "n", "/", "x">>
p_prefix_of_parent == <<"/", "m", "m", "/", "x">>
p_lib1_slash == <<"/", "l", "/">>
p_lib_deep == <<"/", "k", "/", "j">>

TranslateFiles == {p_inside, p_sibling, p_traversal, p_root_itself, p_top, p_unnormalized,
                   p_elsewhere, p_prefix_of_parent}
TranslateRoots == {p_root, p_root_slash, p_top}
TranslateLibraries == {p_lib1, p_lib1_slash, p_lib_deep}

TranslateInit ==
    /\ tr \in [file_path : TranslateFiles, root_path : TranslateRoots,
                library_path : TranslateLibraries, done : {FALSE},
                res : {[ok |-> FALSE, path |-> None]}]
    /\ WebhookIdle /\ EvIdle /\ FilesIdle

\* Lines 609-619 applied to one (file_path, root_path, library_path).
TranslateStep ==
    /\ ~tr.done
    /\ tr' = [tr EXCEPT !.done = TRUE,
                        !.res = Translate(tr.file_path, tr.root_path, tr.library_path)]
    /\ UNCHANGED <<wvars, ev, fvars>>

SpecTranslate == TranslateInit /\ [][TranslateStep]_vars

(***************************************************************************)
(* The rule evaluation on its own                                          *)
(***************************************************************************)

s_OR == <<"O", "R">>
s_4k == <<"4", "k">>

\* quality_profile == 'SD' or '4k' in tags, with the keyword in several cases
q_or_lower == <<"q", "u", "a", "l", "i", "t", "y", "_", "p", "r", "o", "f", "i", "l", "e", " ", "=", "=", " ", "'", "S", "D", "'", " ", "o", "r", " ", "'", "4", "k", "'", " ", "i", "n", " ", "t", "a", "g", "s">>
q_or_upper == <<"q", "u", "a", "l", "i", "t", "y", "_", "p", "r", "o", "f", "i", "l", "e", " ", "=", "=", " ", "'", "S", "D", "'", " ", "O", "R", " ", "'", "4", "k", "'", " ", "i", "n", " ", "t", "a", "g", "s">>
q_or_mixed == <<"q", "u", "a", "l", "i", "t", "y", "_", "p", "r", "o", "f", "i", "l", "e", " ", "=", "=", " ", "'", "S", "D", "'", " ", "O", "r", " ", "'", "4", "k", "'", " ", "i", "n", " ", "t", "a", "g", "s">>
\* quality_profile == 'HD' and '4k' in tags, with the keyword in several cases
q_and_lower == <<"q", "u", "a", "l", "i", "t", "y", "_", "p", "r", "o", "f", "i", "l", "e", " ", "=", "=", " ", "'", "H", "D", "'", " ", "a", "n", "d", " ", "'", "4", "k", "'", " ", "i", "n", " ", "t", "a", "g", "s">>
q_and_upper == <<"q", "u", "a", "l", "i", "t", "y", "_", "p", "r", "o", "f", "i", "l", "e", " ", "=", "=", " ", "'", "H", "D", "'", " ", "A", "N", "D", " ", "'", "4", "k", "'", " ", "i", "n", " ", "t", "a", "g", "s">>
q_and_mixed == <<"q", "u", "a", "l", "i", "t", "y", "_", "p", "r", "o", "f", "i", "l", "e", " ", "=", "=", " ", "'", "H", "D", "'", " ", "A", "n", "d", " ", "'", "4", "k", "'", " ", "i", "n", " ", "t", "a", "g", "s">>
\* a literal that contains the letters of a keyword
q_literal_or == <<"q", "u", "a", "l", "i", "t", "y", "_", "p", "r", "o", "f", "i", "l", "e", " ", "=", "=", " ", "'", "O", "R", "'">>
q_literal_in_tags == <<"'", "O", "R", "'", " ", "i", "n", " ", "t", "a", "g", "s">>
\* precedence: and binds tighter than or
q_prec == <<"q", "u", "a", "l", "i", "t", "y", "_", "p", "r", "o", "f", "i", "l", "e", " ", "=", "=", " ", "'", "H", "D", "'", " ", "O", "R", " ", "q", "u", "a", "l", "i", "t", "y", "_", "p", "r", "o", "f", "i", "l", "e", " ", "=", "=", " ", "'", "S", "D", "'", " ", "A", "N", "D", " ", "'", "4", "k", "'", " ", "i", "n", " ", "t", "a", "g", "s">>

EvalQueries == {q_hd, q_4k, q_undefined, q_or_lower, q_or_upper, q_or_mixed,
                q_and_lower, q_and_upper, q_and_mixed, q_literal_or, q_literal_in_tags, q_prec}
EvalProfiles == {s_HD, s_SD, s_OR, None}
EvalTags == { <<>>, <<s_4k>>, <<s_4k, s_OR>> }

EvalInit ==
    /\ ev \in [query : EvalQueries, quality_profile : EvalProfiles, tags : EvalTags,
                done : {FALSE}, res : {""}]
    /\ WebhookIdle /\ TrIdle /\ FilesIdle

\* The names given to the evaluation.
EvalNames == (k_quality_profile :> StrVal(ev.quality_profile)) @@ (k_tags :> ListVal(ev.tags))

\* Lines 599-602 applied to one query.
EvalStep ==
    /\ ~ev.done
    /\ ev' = [ev EXCEPT !.done = TRUE, !.res = EvalRule(ev.query, EvalNames)]
    /\ UNCHANGED <<wvars, tr, fvars>>

SpecEval == EvalInit /\ [][EvalStep]_vars

(***************************************************************************)
(* on_postprocessor_task_results and process_files                         *)
(***************************************************************************)

\* Values of the minimum_file_size setting; '100MB' is the default.
s_100MB == <<"1", "0", "0", "M", "B">>
s_1KiB == <<"1", "K", "i", "B">>

\* The digits at the start of a size and the unit after them.
RECURSIVE NumberLen(_)
NumberLen(s) ==
    IF s # <<>> /\ (\E d \in 1..10 : Digits[d] = Head(s)) THEN 1 + NumberLen(Tail(s)) ELSE 0

\* The multiplier of a unit for humanfriendly.parse_size (binary=False): the
\* units written with an i are powers of 1024, the others powers of 1000.
UnitSize(unit) ==
    CASE lower(unit) \in {<<>>, <<"b">>}      -> 1
      [] lower(unit) = <<"k", "b">>           -> 1000
      [] lower(unit) = <<"k", "i", "b">>      -> 1024
      [] lower(unit) = <<"m", "b">>           -> 1000000
      [] lower(unit) = <<"m", "i", "b">>      -> 1048576

\* humanfriendly.parse_size
parse_size(size) ==
    int(SubSeq(size, 1, NumberLen(size)))
        * UnitSize(lstrip(SubSeq(size, NumberLen(size) + 1, Len(size))))

\* check_file_size_under_max_file_size(path, minimum_file_size), st_size being
\* os.stat(path).st_size
check_file_size_under_max_file_size(st_size, minimum_file_size) ==
    IF parse_size(minimum_file_size) < st_size THEN FALSE ELSE TRUE

\* At most this many destination files.
MaxDest == 2

\* Sizes of the destination files in bytes, around the default minimum.
FileSizes == {99999999, 100000000, 100000001}

\* A destination file: its size, and whether it still exists (os.stat raises
\* for a file that does not).
DestFiles == [size : FileSizes, exists : {TRUE}] \cup {[size |-> 0, exists |-> FALSE]}

DestLists == UNION { [1..n -> DestFiles] : n \in 0..MaxDest }

\* The settings of the flow.
FSettings(mode, rename_files, limit, minimum, api_key) ==
    [mode |-> mode, rename_files |-> rename_files, limit_import_on_file_size |-> limit,
     minimum_file_size |-> minimum, api_key |-> api_key]

FSettingsSet ==
    { FSettings("update_mode", r, TRUE, s_100MB, TRUE) : r \in BOOLEAN }
    \cup { FSettings("import_mode", FALSE, l, m, TRUE) : l \in BOOLEAN, m \in {s_100MB, s_1KiB} }
    \cup { FSettings("update_mode", FALSE, TRUE, s_100MB, FALSE) }

Task(processing, move, files) ==
    [task_processing_success |-> processing, file_move_processes_success |-> move,
     destination_files |-> files]

Tasks ==
    { Task(TRUE, TRUE, fl) : fl \in DestLists }
    \cup { Task(FALSE, TRUE, <<[size |-> 100000000, exists |-> TRUE]>>),
           Task(TRUE, FALSE, <<[size |-> 100000000, exists |-> TRUE]>>) }

FilesInit ==
    /\ fsettings \in FSettingsSet
    /\ task = Task(FALSE, FALSE, <<>>)
    /\ fpc = "start"
    /\ j = 1
    /\ movie_id = 0
    /\ download_id = 0
    /\ now = 0
    /\ fcalls = <<>>
    /\ WebhookIdle /\ TrIdle /\ EvIdle

\* An entry of fcalls: the API function, the command of post_command, the
\* position of the destination file, the ids given, the time of the call and
\* its outcome.
FCall(fn, command, id, outcome) ==
    [fn |-> fn, command |-> command, file |-> j, id |-> id, at |-> now, outcome |-> outcome]

\* The loop of process_files goes on with the next destination file.
NextFile ==
    /\ j' = j + 1
    /\ fpc' = "file"

\* on_postprocessor_task_results up to the call of process_files.
PostprocessorStart ==
    /\ fpc = "start"
    /\ \E t \in Tasks :
         /\ task' = t
         /\ IF ~t.task_processing_success \/ ~t.file_move_processes_success \/ ~fsettings.api_key
            THEN fpc' = "done"
            ELSE fpc' = "file"
    /\ UNCHANGED <<fsettings, j, movie_id, download_id, now, fcalls>>
    /\ UNCHANGED <<wvars, tr, ev>>

\* update_mode: the lookup of the movie.  The call is outside any try: if it
\* raises, the exception leaves process_files.
UpdateLookup ==
    /\ fpc = "file"
    /\ j <= Len(task.destination_files)
    /\ fsettings.mode = "update_mode"
    /\ \E outcome \in {"raise", "no_id", "found"} :
         /\ fcalls' = Append(fcalls, FCall("lookup_movie", "", 0, outcome))
         /\ CASE outcome = "raise" -> fpc' = "raised" /\ UNCHANGED <<j, movie_id>>
              [] outcome = "no_id" -> NextFile /\ movie_id' = 0
              [] OTHER             -> fpc' = "refresh" /\ movie_id' = 3 /\ j' = j
    /\ UNCHANGED <<fsettings, task, download_id, now>>
    /\ UNCHANGED <<wvars, tr, ev>>

\* The refresh is taken as queued whatever post_command did.
RefreshQueued_WhateverTheResult(outcome) == TRUE

\* update_mode goes on after RefreshMovie: post_command raised nothing and
\* its result carries no message.
RefreshQueued(outcome) == outcome = "ok"

\* update_mode: the RefreshMovie command.  An exception or a result with a
\* message ends the handling of the file.
UpdateRefresh ==
    /\ fpc = "refresh"
    /\ \E outcome \in {"raise", "message", "ok"} :
         /\ fcalls' = Append(fcalls, FCall("post_command", "RefreshMovie", movie_id, outcome))
         /\ IF RefreshQueued(outcome) /\ fsettings.rename_files
            THEN fpc' = "sleep" /\ j' = j
            ELSE NextFile
    /\ UNCHANGED <<fsettings, task, movie_id, download_id, now>>
    /\ UNCHANGED <<wvars, tr, ev>>

\* The seconds update_mode waits between the refresh and the rename.
SettlingDelay == 10

\* update_mode: time.sleep(10) before the rename.
UpdateSleep ==
    /\ fpc = "sleep"
    /\ now' = now + SettlingDelay
    /\ fpc' = "rename"
    /\ UNCHANGED <<fsettings, task, j, movie_id, download_id, fcalls>>
    /\ UNCHANGED <<wvars, tr, ev>>

\* update_mode: the RenameMovie command; every outcome is only logged.
UpdateRename ==
    /\ fpc = "rename"
    /\ \E outcome \in {"raise", "ok", "not_a_dict"} :
         fcalls' = Append(fcalls, FCall("post_command", "RenameMovie", movie_id, outcome))
    /\ NextFile
    /\ UNCHANGED <<fsettings, task, movie_id, download_id, now>>
    /\ UNCHANGED <<wvars, tr, ev>>

\* process_files in import mode: the size check.  os.stat raises for a file
\* that does not exist, and the exception leaves process_files.
ImportCheckSize ==
    /\ fpc = "file"
    /\ j <= Len(task.destination_files)
    /\ fsettings.mode = "import_mode"
    /\ LET dest_file == task.destination_files[j]
       IN  IF ~dest_file.exists
           THEN fpc' = "raised" /\ j' = j
           ELSE IF check_file_size_under_max_file_size(dest_file.size, fsettings.minimum_file_size)
           THEN NextFile
           ELSE fpc' = "queue" /\ j' = j
    /\ UNCHANGED <<fsettings, task, movie_id, download_id, now, fcalls>>
    /\ UNCHANGED <<wvars, tr, ev>>

\* import_mode: the queue is fetched to find the download id; a failure is
\* logged and the import goes on without it.
ImportQueue ==
    /\ fpc = "queue"
    /\ \E outcome \in {"raise", "no_match", "match"} :
         /\ fcalls' = Append(fcalls, FCall("get_queue", "", 0, outcome))
         /\ download_id' = IF outcome = "match" THEN 9 ELSE 0
    /\ fpc' = "scan"
    /\ UNCHANGED <<fsettings, task, j, movie_id, now>>
    /\ UNCHANGED <<wvars, tr, ev>>

\* import_mode: the DownloadedMoviesScan command; every outcome is only logged.
ImportScan ==
    /\ fpc = "scan"
    /\ \E outcome \in {"raise", "message", "ok"} :
         fcalls' = Append(fcalls, FCall("post_command", "DownloadedMoviesScan", download_id, outcome))
    /\ NextFile
    /\ UNCHANGED <<fsettings, task, movie_id, download_id, now>>
    /\ UNCHANGED <<wvars, tr, ev>>

\* The loop of process_files is over.
FilesFinish ==
    /\ fpc = "file"
    /\ j > Len(task.destination_files)
    /\ fpc' = "done"
    /\ UNCHANGED <<fsettings, task, j, movie_id, download_id, now, fcalls>>
    /\ UNCHANGED <<wvars, tr, ev>>

FilesNext ==
    \/ PostprocessorStart
    \/ UpdateLookup
    \/ UpdateRefresh
    \/ UpdateSleep
    \/ UpdateRename
    \/ ImportCheckSize
    \/ ImportQueue
    \/ ImportScan
    \/ FilesFinish

SpecFiles == FilesInit /\ [][FilesNext]_vars

(***************************************************************************)
(* Properties of the action trigger                                        *)
(***************************************************************************)

IsTestCall(c) == c.fn = "test_path_for_pending_task"
IsCreateCall(c) == c.fn = "create_task"

SlotOf(m) == settings.configured[matched_rules[m].index]

\* Calls made for match m.
CallsFor(m) == {k \in 1..Len(calls) : calls[k].match = m}

\* C1: if the necessity test raises for a match, the request still ends with
\* the list of outcomes (no error status), and the test has been run for every
\* match whose slot asks for it.
C1_TestFailureIsContained ==
    (pc = "done" /\ \E k \in 1..Len(calls) : IsTestCall(calls[k]) /\ calls[k].raised)
        => /\ data.status # 500
           /\ data.content.kind = "actions"
           /\ \A m \in 1..Len(matched_rules) :
                 SlotOf(m).trigger_test_path => \E k \in CallsFor(m) : IsTestCall(calls[k])

\* Position in triggered_actions of the outcome of match m: skipped matches
\* record nothing.
ActionPos(m) == Cardinality({n \in 1..m : SlotOf(n).trigger_test_path})

\* C2: create_task is called for a match only with trigger_test and
\* create_task on, right after the necessity test of the same match and path
\* reported that processing is needed; a match with trigger_test off gets no
\* call at all; a match whose test returned without reporting a need, or whose
\* create_task is off, gets the outcome test_only and no task.
C2_CreateOnlyAfterNeededTest ==
    /\ \A k \in 1..Len(calls) :
          IsCreateCall(calls[k]) =>
              LET m == calls[k].match
              IN  /\ m \in 1..Len(matched_rules)
                  /\ SlotOf(m).trigger_test_path
                  /\ SlotOf(m).create_task
                  /\ calls[k].path = matched_rules[m].path
                  /\ calls[k].library_id = matched_rules[m].library_id
                  /\ k > 1
                  /\ IsTestCall(calls[k - 1])
                  /\ calls[k - 1].match = m
                  /\ calls[k - 1].path = calls[k].path
                  /\ calls[k - 1].library_id = calls[k].library_id
                  /\ ~calls[k - 1].raised
                  /\ calls[k - 1].needed
    /\ \A m \in 1..Len(matched_rules) :
          /\ ~SlotOf(m).trigger_test_path => CallsFor(m) = {}
          /\ (/\ SlotOf(m).trigger_test_path
              /\ \E k \in CallsFor(m) :
                    /\ IsTestCall(calls[k])
                    /\ ~calls[k].raised
                    /\ (~calls[k].needed \/ ~SlotOf(m).create_task))
             => /\ \A k \in CallsFor(m) : ~IsCreateCall(calls[k])
                /\ ActionPos(m) <= Len(triggered_actions)
                /\ triggered_actions[ActionPos(m)] = Action(matched_rules[m], "test_only")

\* A request in which a task was created for one match, another match was
\* skipped and a third one was tested only.
C2_Witness ==
    /\ pc = "done"
    /\ \E k \in 1..Len(calls) : IsCreateCall(calls[k]) /\ ~calls[k].raised
    /\ \E m \in 1..Len(matched_rules) : ~SlotOf(m).trigger_test_path
    /\ \E m \in 1..Len(matched_rules) :
          \E k \in CallsFor(m) : IsTestCall(calls[k]) /\ ~calls[k].raised /\ ~calls[k].needed

(***************************************************************************)
(* Properties of the routing                                               *)
(***************************************************************************)

\* The rules have been evaluated for the request.
Routed == pc \in {"trigger", "create"} \/ (pc = "done" /\ request.method = "POST"
                                           /\ \E k \in 1..Len(calls) : calls[k].fn = "get_all_libraries")

\* dir is path itself or one of its ancestors in the directory tree (both
\* absolute): the components of dir are the first components of path.
InsideDir(path, dir) ==
    LET pcomps == nonempty(split(normpath(path), "/"))
        dcomps == nonempty(split(normpath(dir), "/"))
    IN  Len(dcomps) <= Len(pcomps) /\ SubSeq(pcomps, 1, Len(dcomps)) = dcomps

\* file_path of file entry rec of the request.
RecPath(rec) == FilePath(request.movie_path, MovieFiles(request)[rec])

\* C3: a file entry whose path is not inside the movie's root directory is
\* dropped before the rules: no query is evaluated for it and no match comes
\* from it.
C3_OutsideRootIsDropped ==
    ~Falsy(request.movie_path) =>
        /\ \A m \in 1..Len(matched_rules) :
             InsideDir(RecPath(matched_rules[m].rec), request.movie_path)
        /\ \A k \in 1..Len(evaluated) :
             InsideDir(RecPath(evaluated[k][1]), request.movie_path)

\* Number of matches of slot n for file entry rec.
MatchCount(rec, n) ==
    Cardinality({m \in 1..Len(matched_rules) :
                    matched_rules[m].rec = rec /\ matched_rules[m].index = n})

\* matched_rules is in (record, slot) order.
MatchesOrdered ==
    \A a, b \in 1..Len(matched_rules) :
        a < b => \/ matched_rules[a].rec < matched_rules[b].rec
                 \/ /\ matched_rules[a].rec = matched_rules[b].rec
                    /\ matched_rules[a].index < matched_rules[b].index

\* What the queries of the model mean: quality_profile == 'HD' is truthy when
\* the resolved profile is HD, '4k' in tags when 4k is one of the tags; the
\* query with the undefined name is never truthy.
Truthy(query) ==
    \/ query = q_hd /\ flat_data_base.quality_profile = <<"H", "D">>
    \/ query = q_4k /\ \E t \in 1..Len(flat_data_base.tags) : flat_data_base.tags[t] = <<"4", "k">>

\* Slot n's query is truthy for file entry rec, which is not dropped, and its
\* library has a root.
TruthyWithLibrary(rec, n) ==
    LET slot == settings.configured[n]
    IN  /\ slot.rule_query # <<>>
        /\ slot.library_id \in {<<"1">>, <<"2">>}
        /\ Truthy(slot.rule_query)
        /\ ~Dropped(request.movie_path, RecPath(rec))

\* C4 as stated: every active slot whose query is truthy and whose library has
\* a root gives exactly one match for the record, the other slots give none,
\* and the matches are in (record, slot) order.
C4_EveryTruthySlotMatches ==
    Routed =>
        /\ MatchesOrdered
        /\ \A rec \in 1..Len(MovieFiles(request)), n \in 1..NumSlots :
             MatchCount(rec, n) = IF TruthyWithLibrary(rec, n) THEN 1 ELSE 0

\* C4 amended: the same, for the matches whose path can be translated: the
\* payload gives the movie's root path and that path has a parent directory.
C4_EveryTranslatableTruthySlotMatches ==
    Routed =>
        /\ MatchesOrdered
        /\ \A rec \in 1..Len(MovieFiles(request)), n \in 1..NumSlots :
             MatchCount(rec, n) =
                 IF TruthyWithLibrary(rec, n) /\ ~Falsy(request.movie_path)
                        /\ dirname(normpath(request.movie_path)) # <<>>
                 THEN 1 ELSE 0

\* One file entry has matched the two configured slots, and a second file
\* entry has matched too.
C4_Witness ==
    /\ Routed
    /\ \E a, b \in 1..Len(matched_rules) :
          /\ a < b
          /\ matched_rules[a].rec = 1 /\ matched_rules[b].rec = 1
          /\ matched_rules[a].index = 2 /\ matched_rules[b].index = 10
    /\ \E c \in 1..Len(matched_rules) : matched_rules[c].rec = 2

\* C8: a slot with an empty query, or with a query and no library id, never
\* gives a match and its query is never evaluated.
C8_InactiveSlotsNeverMatch ==
    /\ \A m \in 1..Len(matched_rules) :
         /\ settings.configured[matched_rules[m].index].rule_query # <<>>
         /\ settings.configured[matched_rules[m].index].library_id # <<>>
    /\ \A k \in 1..Len(evaluated) :
         /\ settings.configured[evaluated[k][2]].rule_query # <<>>
         /\ settings.configured[evaluated[k][2]].library_id # <<>>

\* A request was routed with a match while another slot had a query that is
\* truthy for the record but no library id.
C8_Witness ==
    /\ Routed
    /\ matched_rules # <<>>
    /\ \E n \in 1..NumSlots :
         /\ settings.configured[n].rule_query = q_hd
         /\ settings.configured[n].library_id = <<>>
         /\ flat_data_base.quality_profile = s_HD

(***************************************************************************)
(* Properties of the response                                              *)
(***************************************************************************)

\* The request passed the checks of the settings, the method and the body.
WellFormedPost ==
    /\ pc = "done"
    /\ settings.enable_webhook /\ settings.api_key
    /\ request.method = "POST" /\ request.body_ok

NoCollaboratorCalled == calls = <<>> /\ evaluated = <<>> /\ matched_rules = <<>>

TestAnswer == data = [status |-> 200, content |-> MessageContent(TRUE, "Test successful")]
IgnoredAnswer == data = [status |-> 200, content |-> MessageContent(TRUE, "Ignored webhook event type")]

\* eventType is the word Test in some letter case.
SpelledTest(event_type) == event_type \in {<<"T", "e", "s", "t">>, <<"t", "e", "s", "t">>, <<"T", "E", "S", "T">>}

\* C6 as stated: an eventType equal to "Test" in any letter case gets the test
\* answer, any other eventType different from "Download" gets the ignored
\* answer, and nothing is called in both cases.
C6_TestAndOtherEvents ==
    WellFormedPost =>
        /\ SpelledTest(request.eventType) => TestAnswer /\ NoCollaboratorCalled
        /\ (~SpelledTest(request.eventType) /\ request.eventType # <<"D", "o", "w", "n", "l", "o", "a", "d">>)
               => IgnoredAnswer /\ NoCollaboratorCalled

\* C6 amended: an eventType that is "Test" in any letter case once the
\* whitespace around it is removed gets the test answer; any other eventType
\* different from "Download" gets the ignored answer; nothing is called in
\* both cases.
C6_StrippedTestAndOtherEvents ==
    WellFormedPost =>
        /\ (SpelledTest(request.eventType) \/ request.eventType = <<" ", "t", "E", "s", "T", " ">>)
               => TestAnswer /\ NoCollaboratorCalled
        /\ request.eventType \in {<<"d", "o", "w", "n", "l", "o", "a", "d">>, <<"G", "r", "a", "b">>, None}
               => IgnoredAnswer /\ NoCollaboratorCalled

\* An upper-case TEST event was answered.
C6_Witness == WellFormedPost /\ request.eventType = <<"T", "E", "S", "T">> /\ TestAnswer

\* C7: a Download webhook with file details is answered with success=false
\* and the "no rules matched" message, without an error status, when no match
\* was produced, and with success=true and the list of actions when an action
\* was triggered.
C7_ResponseOfDownload ==
    (pc = "done" /\ Routed) =>
        /\ matched_rules = <<>>
             => data = [status |-> 200,
                        content |-> MessageContent(FALSE, "No rules matched for webhook payload")]
        /\ triggered_actions # <<>>
             => data = [status |-> 200, content |-> ActionsContent(triggered_actions)]

(***************************************************************************)
(* Properties of the path translation                                      *)
(***************************************************************************)

\* The components of an absolute path, "." and ".." resolved.
Comps(path) == nonempty(split(normpath(path), "/"))

\* The absolute path with the given components.
FromComps(comps) == <<"/">> \o joinstr(comps, "/")

\* The components of the parent directory of a root.
ParentComps(root_path) ==
    IF Comps(root_path) = <<>> THEN <<>>
    ELSE SubSeq(Comps(root_path), 1, Len(Comps(root_path)) - 1)

\* The file lies under the parent directory of the root.
UnderParent(file_path, root_path) ==
    /\ Len(ParentComps(root_path)) <= Len(Comps(file_path))
    /\ SubSeq(Comps(file_path), 1, Len(ParentComps(root_path))) = ParentComps(root_path)

\* The components of the file below the parent directory of the root.
BelowParent(file_path, root_path) ==
    SubSeq(Comps(file_path), Len(ParentComps(root_path)) + 1, Len(Comps(file_path)))

\* C5: for a file under the parent directory of the normalized source root the
\* translation gives the library root followed by the file's path relative to
\* that parent directory, normalized; the result lies under the library root
\* and keeps the movie's folder name; '/m/F/x' with root '/m/F' and library
\* '/l' gives '/l/F/x'.
C5_TranslationKeepsRelativePath ==
    (tr.done /\ UnderParent(tr.file_path, tr.root_path)) =>
        /\ tr.res.ok
        /\ tr.res.path = FromComps(Comps(tr.library_path)
                                       \o BelowParent(tr.file_path, tr.root_path))
        /\ InsideDir(tr.res.path, tr.library_path)
        /\ (tr.file_path = p_inside /\ tr.root_path = p_root /\ tr.library_path = p_lib1)
               => tr.res.path = <<"/", "l", "/", "F", "/", "x">>

\* The file of the example was translated.
C5_Witness ==
    /\ tr.done
    /\ tr.file_path = p_inside /\ tr.root_path = p_root /\ tr.library_path = p_lib1
    /\ tr.res = [ok |-> TRUE, path |-> <<"/", "l", "/", "F", "/", "x">>]

(***************************************************************************)
(* Properties of the rule evaluation                                       *)
(***************************************************************************)

\* The query with its and/or keywords (the tokens between two comparisons)
\* written in lower case and nothing else changed.
LowerKeywords(query) ==
    LET toks == split(query, " ")
    IN  joinstr([k \in 1..Len(toks) |->
                    IF k % 4 = 0 /\ lower(toks[k]) \in {kw_and, kw_or}
                    THEN lower(toks[k]) ELSE toks[k]], " ")

\* C9: a query gives the same result as the query with its AND/OR keywords
\* written in lower case, whatever their letter case, the literals and names
\* being taken as they are written.
C9_KeywordsAnyCase ==
    ev.done => ev.res = simple_eval(LowerKeywords(ev.query), EvalNames)

(***************************************************************************)
(* Properties of the import filter                                         *)
(***************************************************************************)

\* Calls made for destination file k.
FCallsFor(k) == {c \in 1..Len(fcalls) : fcalls[c].file = k}

\* The configured minimum in bytes.
MinimumBytes ==
    IF fsettings.minimum_file_size = s_100MB THEN 100000000 ELSE 1024

\* C10: in import mode, with the size limit on, a destination file gets no
\* call at all exactly when its size is strictly below the minimum; a file of
\* the minimum size or more gets the queue lookup and the import command.
C10_SkippedIffStrictlyBelowMinimum ==
    (/\ fpc = "done"
     /\ task.task_processing_success /\ task.file_move_processes_success /\ fsettings.api_key
     /\ fsettings.mode = "import_mode" /\ fsettings.limit_import_on_file_size)
        => \A k \in 1..Len(task.destination_files) :
             /\ task.destination_files[k].size < MinimumBytes => FCallsFor(k) = {}
             /\ task.destination_files[k].size >= MinimumBytes
                  => \E c \in FCallsFor(k) : fcalls[c].command = "DownloadedMoviesScan"

(***************************************************************************)
(* Properties of the webhook's error handling                              *)
(***************************************************************************)

\* simple_eval raises for the query of slot n: it names resolution, which is
\* not a key of flat_data.
QueryRaises(n) == settings.configured[n].rule_query = q_undefined

\* The query of slot n has been evaluated for file entry rec.
Evaluated(rec, n) == \E k \in 1..Len(evaluated) : evaluated[k] = <<rec, n>>

\* The routing of a request in which a query raised: every active slot has
\* been evaluated for every file entry that was not dropped, and every slot
\* whose query is truthy has its match.
RoutingIsComplete ==
    \A rec \in 1..Len(MovieFiles(request)), n \in 1..NumSlots :
        /\ (~Dropped(request.movie_path, RecPath(rec)) /\ SlotActive(settings.configured[n]))
              => Evaluated(rec, n)
        /\ MatchCount(rec, n) =
              IF TruthyWithLibrary(rec, n) /\ ~Falsy(request.movie_path)
                     /\ dirname(normpath(request.movie_path)) # <<>>
              THEN 1 ELSE 0

\* C12: when the evaluation of a slot's query raises for a record, the slot
\* does not match that record, the later slots and the later records are
\* still evaluated, the other matches are kept, and the request does not end
\* with the error status.
C12_EvaluationFailureIsContained ==
    (pc = "done" /\ Routed /\ \E k \in 1..Len(evaluated) : QueryRaises(evaluated[k][2]))
        => RoutingIsComplete /\ data.status # 500

\* The part of C12 about the routing alone, whatever the trigger loop does
\* afterwards.
EvaluationFailureKeepsRouting ==
    (Routed /\ \E k \in 1..Len(evaluated) : QueryRaises(evaluated[k][2])) => RoutingIsComplete

\* A lookup of the tag labels failed: get_movie or get_tag raised.
TagLookupFailed ==
    \E k \in 1..Len(calls) : calls[k].fn \in {"get_movie", "get_tag"} /\ calls[k].raised

\* C13: when the lookup that resolves the movie's tag ids fails, the handler
\* goes on to the rules and the tags given to the rules are the empty list,
\* not the tag ids of the payload.
C13_FailedTagLookupGivesNoTags ==
    TagLookupFailed =>
        /\ flat_data_base.tags = <<>>
        /\ pc = "done" => Routed

\* A test or a task creation raised in the trigger loop.
TriggerRaised ==
    \E k \in 1..Len(calls) :
        (IsTestCall(calls[k]) \/ IsCreateCall(calls[k])) /\ calls[k].raised

\* C14: the response of a request with matches carries one outcome per match,
\* in the order of the matches; stated for the requests in which no call of
\* the trigger loop raised.
C14_OneOutcomePerMatch ==
    (pc = "done" /\ Routed /\ matched_rules # <<>> /\ ~TriggerRaised)
        => /\ data.content.kind = "actions"
           /\ Len(data.content.triggered_actions) = Len(matched_rules)
           /\ \A m \in 1..Len(matched_rules) :
                 /\ data.content.triggered_actions[m].rule_index = matched_rules[m].index
                 /\ data.content.triggered_actions[m].library_id = matched_rules[m].library_id

(***************************************************************************)
(* Properties of update_mode                                               *)
(***************************************************************************)

IsRefresh(c) == c.fn = "post_command" /\ c.command = "RefreshMovie"
IsRename(c) == c.fn = "post_command" /\ c.command = "RenameMovie"

\* C11: in update mode RenameMovie is issued for a destination file only with
\* rename_files on, after a RefreshMovie for the same file and movie id that
\* raised nothing and returned no message, and at least the settling delay
\* after it; a file whose refresh failed, or for which no movie id was found,
\* gets no rename.
C11_RenameOnlyAfterSettledRefresh ==
    /\ \A k \in 1..Len(fcalls) :
          IsRename(fcalls[k]) =>
              /\ fsettings.mode = "update_mode"
              /\ fsettings.rename_files
              /\ fcalls[k].id # 0
              /\ \E r \in 1..(k - 1) :
                    /\ IsRefresh(fcalls[r])
                    /\ fcalls[r].file = fcalls[k].file
                    /\ fcalls[r].id = fcalls[k].id
                    /\ fcalls[r].outcome = "ok"
                    /\ fcalls[k].at - fcalls[r].at >= SettlingDelay
    /\ \A r \in 1..Len(fcalls) :
          ((IsRefresh(fcalls[r]) /\ fcalls[r].outcome # "ok")
              \/ (fcalls[r].fn = "lookup_movie" /\ fcalls[r].outcome # "found"))
          => \A k \in FCallsFor(fcalls[r].file) : ~IsRename(fcalls[k])

\* Two destination files have been handled with rename_files on: the refresh
\* of the first failed and no rename followed, the second was refreshed and,
\* after the delay, renamed.
C11_Witness ==
    /\ fpc = "done"
    /\ fsettings.rename_files
    /\ \E r \in FCallsFor(1) : IsRefresh(fcalls[r]) /\ fcalls[r].outcome = "message"
    /\ \E k \in FCallsFor(2) : IsRename(fcalls[k]) /\ fcalls[k].at = SettlingDelay

(***************************************************************************)
(* Properties of process_files                                             *)
(***************************************************************************)

\* process_files has been called and is over, by a return or by an exception.
FilesOver ==
    /\ fpc \in {"done", "raised"}
    /\ task.task_processing_success
    /\ task.file_move_processes_success
    /\ fsettings.api_key

\* Destination file k has been taken up: the first call of its mode has been
\* made for it, or import mode has left it out for its size.
TakenUp(k) ==
    IF fsettings.mode = "update_mode"
    THEN \E c \in FCallsFor(k) : fcalls[c].fn = "lookup_movie"
    ELSE \/ \E c \in FCallsFor(k) : fcalls[c].fn = "get_queue"
         \/ check_file_size_under_max_file_size(task.destination_files[k].size,
                                                fsettings.minimum_file_size)

\* C15: the destination files are handled one after another and on their
\* own: a call that fails for one file ends only the step it is part of, and
\* every later file of the list is still taken up.  Stated for lists whose
\* files all exist.
C15_EveryDestinationFileIsHandled ==
    (FilesOver /\ \A k \in 1..Len(task.destination_files) : task.destination_files[k].exists)
        => \A k \in 1..Len(task.destination_files) : TakenUp(k)

\* C16: with limit_import_on_file_size off, import mode leaves no destination
\* file out for its size: the import command is issued for every file.
C16_NoSizeFilterWhenLimitIsOff ==
    (FilesOver /\ fpc = "done" /\ fsettings.mode = "import_mode"
         /\ ~fsettings.limit_import_on_file_size)
        => \A k \in 1..Len(task.destination_files) :
              \E c \in FCallsFor(k) : fcalls[c].command = "DownloadedMoviesScan"
====
